---------------------------- MODULE Spec2Model ----------------------------
(***************************************************************************)
(* Model of streamlit_nyc.py: a Streamlit script that fetches NYC vehicle  *)
(* accident records, normalizes them, filters them by a date range chosen  *)
(* with two date pickers, prints summary statistics and composes a map.    *)
(*                                                                         *)
(* The script is re-executed top to bottom on every (re-)run.  One run is  *)
(* the chain of actions                                                    *)
(*   Open/Rerun/ChangeDate -> Fetch* -> Guard* -> Columns* -> Normalize    *)
(*   -> DateInputs -> Filter -> Statistics -> MapComposition               *)
(* and pc records the position of the run in the script.                   *)
(*                                                                         *)
(* Encoding of values.                                                     *)
(*  - A JSON cell is the record [k, s, n]: k is the kind of the cell       *)
(*    ("absent": the object has no such key, "null": JSON null, "str": a   *)
(*    string that is neither a date nor a number, "iso": a date-time       *)
(*    string, "num": a numeric string), s the string and n the number.     *)
(*  - A date-time is a number of ticks, day * TicksPerDay + tick; tick 0   *)
(*    is 00:00.  NaT is the invalid date-time.                             *)
(*  - A displayed element is the record [kind, text, num, str].            *)
(***************************************************************************)
EXTENDS Integers, Sequences, FiniteSets, TLC

\* ------------------------------------------------------------------ bounds
MaxRecords == 3     \* longest response body
MaxDay == 2         \* the date pickers offer the days 1 .. MaxDay
TicksPerDay == 2    \* times of day told apart within one day
MaxRequests == 2    \* network requests issued in one behaviour

\* pd.NaT, the result of coercing an unparseable date
NaT == 0

Days == 1 .. MaxDay

Fields == {"crash_date", "latitude", "longitude", "on_street_name", "borough"}

\* ------------------------------------------------------------- JSON cells
Absent == [k |-> "absent", s |-> "", n |-> 0]
Null == [k |-> "null", s |-> "", n |-> 0]
NaN == [k |-> "nan", s |-> "", n |-> 0]
Str(x) == [k |-> "str", s |-> x, n |-> 0]
Num(x) == [k |-> "num", s |-> "", n |-> x]
Iso(day, tick) == [k |-> "iso", s |-> "", n |-> day * TicksPerDay + tick]
Stamp(t) == [k |-> "time", s |-> "", n |-> t]

\* pandas isna(): None, NaN and NaT are missing values
IsNa(c) == c.k \in {"absent", "null", "nan"} \/ (c.k = "time" /\ c.n = NaT)

Rec(d, la, lo, st, b) ==
    [crash_date |-> d, latitude |-> la, longitude |-> lo,
     on_street_name |-> st, borough |-> b]


\* ------------------------------------------------------- the environment
\* Records the endpoint may return.  Between them they hold a time of day
\* later than 00:00, an unparseable date, an unparseable latitude, a null
\* longitude, missing keys, street and borough names whose order of
\* occurrence differs from their sort order, and boroughs with and without
\* a boundary polygon.
Pool ==
    { Rec(Iso(1, 0), Num(407), Num(-740), Str("BROADWAY"), Str("MANHATTAN")),
      Rec(Iso(1, 1), Num(406), Num(-739), Str("ATLANTIC AVENUE"), Str("Brooklyn")),
      Rec(Iso(2, 1), Num(407), Num(-738), Absent, Str("QUEENS")),
      Rec(Str("unknown"), Num(406), Num(-739), Str("BROADWAY"), Str("BROOKLYN")),
      Rec(Iso(2, 0), Str("n/a"), Num(-739), Str("ATLANTIC AVENUE"), Str("Brooklyn")),
      Rec(Iso(1, 0), Num(407), Null, Str("BROADWAY"), Str("QUEENS")),
      Rec(Iso(2, 0), Num(407), Num(-740), Null, Absent) }

\* response bodies: JSON arrays of at most MaxRecords objects
Bodies == UNION { [1 .. n -> Pool] : n \in 0 .. MaxRecords }

\* non-success status codes the endpoint may answer with
ErrorStatuses == {404, 500}

\* Python's order on the strings that occur (code point order)
NameOrder ==
    << "ATLANTIC AVENUE", "BROADWAY", "BROOKLYN", "Brooklyn", "MANHATTAN",
       "QUEENS", "brooklyn", "manhattan", "queens" >>

Rank(s) == CHOOSE i \in DOMAIN NameOrder : NameOrder[i] = s

\* faulty variant: the name is looked up as it is spelled
Lower_identity(s) == s

\* str.lower()
Lower(s) ==
    CASE s = "MANHATTAN" -> "manhattan"
      [] s = "BROOKLYN" -> "brooklyn"
      [] s = "Brooklyn" -> "brooklyn"
      [] s = "QUEENS" -> "queens"
      [] s = "BROADWAY" -> "broadway"
      [] s = "ATLANTIC AVENUE" -> "atlantic avenue"
      [] OTHER -> s

\* ------------------------------------------------------------ displayed
Elem(kind, text, num, str) ==
    [kind |-> kind, text |-> text, num |-> num, str |-> str, aux |-> 0]

Title == Elem("title", "NYC Vehicle Accident Visualization", 0, "")
Intro == Elem("markdown", "This app visualizes vehicle accidents in New York City.", 0, "")
FetchError(status) == Elem("error", "Failed to fetch data. Status code:", status, "")
NoDataError == Elem("error", "No accident data found.", 0, "")
ColumnsError ==
    Elem("error", "The dataset does not contain the necessary columns:", 0,
         "crash_date, latitude, longitude, on_street_name, borough")
RangeWarning == Elem("warning", "No accidents found for the selected date range.", 0, "")

\* ---------------------------------------------------------------- state
VARIABLES
    cache,        \* st.cache_data entry of fetch_accident_data
    requests,     \* network requests issued so far
    pc,           \* position of the current run in the script
    failed_at,    \* source line whose exception ended the run, 0 if none
    wd_start,     \* widget state of the start date picker, 0 before it is shown
    wd_end,       \* widget state of the end date picker, 0 before it is shown
    response,     \* status code of the response received in this run, 0 if none
    accidents,    \* result of fetch_accident_data() in this run
    df,           \* the data frame
    start_date,   \* value returned by the start date picker
    end_date,     \* value returned by the end date picker
    filtered_df,  \* rows of df in the selected range
    stats,        \* the statistical overview computed so far
    deck,         \* the pydeck scene
    out           \* elements displayed by this run, in order

vars == << cache, requests, pc, failed_at, wd_start, wd_end, response,
           accidents, df, start_date, end_date, filtered_df, stats, deck, out >>

session == << wd_start, wd_end >>
process == << cache, requests >>

NoFrame == [columns |-> {}, rows |-> << >>]
NoStats ==
    [done |-> {}, total |-> 0, avg |-> [num |-> 0, den |-> 0],
     street |-> "", borough |-> ""]
NoDeck ==
    [built |-> FALSE, layers |-> << >>,
     view |-> [latitude |-> [num |-> 0, den |-> 0],
               longitude |-> [num |-> 0, den |-> 0], zoom |-> 0, pitch |-> 0]]
NoCache == [set |-> FALSE, value |-> << >>, elements |-> << >>]

Init ==
    /\ cache = NoCache
    /\ requests = 0
    /\ pc = "idle"
    /\ failed_at = 0
    /\ wd_start = 0
    /\ wd_end = 0
    /\ response = 0
    /\ accidents = << >>
    /\ df = NoFrame
    /\ start_date = 0
    /\ end_date = 0
    /\ filtered_df = << >>
    /\ stats = NoStats
    /\ deck = NoDeck
    /\ out = << >>

\* A run starts: the script's variables are fresh and lines 7-14 display the
\* title and the introduction.
StartRun ==
    /\ pc' = "fetch"
    /\ failed_at' = 0
    /\ response' = 0
    /\ accidents' = << >>
    /\ df' = NoFrame
    /\ start_date' = 0
    /\ end_date' = 0
    /\ filtered_df' = << >>
    /\ stats' = NoStats
    /\ deck' = NoDeck
    /\ out' = << Title, Intro >>

\* An exception at the given line ends the run.
Raise(line) ==
    /\ pc' = "failed"
    /\ failed_at' = line

Finished == pc \in {"done", "failed"}

\* The page is opened for the first time.
Open ==
    /\ pc = "idle"
    /\ StartRun
    /\ UNCHANGED << session, process >>

\* The user asks for a re-run without touching a widget.
Rerun ==
    /\ Finished
    /\ StartRun
    /\ UNCHANGED << session, process >>

\* The user changes one date picker, which triggers a re-run.
ChangeDate ==
    /\ Finished
    /\ wd_start # 0 /\ wd_end # 0
    /\ \E d \in Days :
         \/ d # wd_start /\ wd_start' = d /\ wd_end' = wd_end
         \/ d # wd_end /\ wd_end' = d /\ wd_start' = wd_start
    /\ StartRun
    /\ UNCHANGED process

\* ------------------------------------------------ fetch_accident_data()
\* faulty variant: an empty result is not memoized
Memoize_skipEmpty(value, elements) ==
    IF value = << >> THEN NoCache
    ELSE [set |-> TRUE, value |-> value, elements |-> elements]

\* @st.cache_data stores the returned value together with the elements the
\* function displayed, and replays both on a later call.
Memoize(value, elements) == [set |-> TRUE, value |-> value, elements |-> elements]

\* A call finds the memoized entry: no request is made.
FetchCached ==
    /\ pc = "fetch"
    /\ cache.set
    /\ accidents' = cache.value
    /\ out' = out \o cache.elements
    /\ pc' = "guard"
    /\ UNCHANGED << process, session, failed_at, response, df, start_date,
                    end_date, filtered_df, stats, deck >>

\* requests.get answers 200: the decoded body is returned and memoized.
FetchOk ==
    /\ pc = "fetch"
    /\ ~cache.set
    /\ requests < MaxRequests
    /\ \E body \in Bodies :
         /\ accidents' = body
         /\ cache' = Memoize(body, << >>)
    /\ response' = 200
    /\ requests' = requests + 1
    /\ pc' = "guard"
    /\ UNCHANGED << session, failed_at, df, start_date, end_date, filtered_df,
                    stats, deck, out >>

\* requests.get answers another status: the error is displayed, [] is
\* returned, and both are memoized.
FetchBadStatus ==
    /\ pc = "fetch"
    /\ ~cache.set
    /\ requests < MaxRequests
    /\ \E status \in ErrorStatuses :
         /\ response' = status
         /\ out' = Append(out, FetchError(status))
         /\ cache' = Memoize(<< >>, << FetchError(status) >>)
    /\ accidents' = << >>
    /\ requests' = requests + 1
    /\ pc' = "guard"
    /\ UNCHANGED << session, failed_at, df, start_date, end_date, filtered_df,
                    stats, deck >>

\* requests.get raises (no connection, DNS failure): the exception leaves
\* fetch_accident_data, nothing is memoized and the run ends.
FetchRaise ==
    /\ pc = "fetch"
    /\ ~cache.set
    /\ requests + 1 < MaxRequests
    /\ requests' = requests + 1
    /\ Raise(26)
    /\ UNCHANGED << cache, session, response, accidents, df, start_date, end_date,
                    filtered_df, stats, deck, out >>

\* ------------------------------------------------------- the data frame
\* pd.DataFrame(list of dicts): the columns are the keys that occur, and a
\* key an object lacks gives NaN in its row.
DataFrame(accs) ==
    [columns |-> {f \in Fields : \E i \in DOMAIN accs : accs[i][f].k # "absent"},
     rows |-> [i \in DOMAIN accs |->
                 [f \in Fields |-> IF accs[i][f].k = "absent" THEN NaN ELSE accs[i][f]]]]

required_columns == {"crash_date", "latitude", "longitude", "on_street_name", "borough"}

\* faulty variant: any() in place of all()
HasRequiredColumns_any(frame) == \E col \in required_columns : col \in frame.columns

HasRequiredColumns(frame) == \A col \in required_columns : col \in frame.columns

\* pd.to_datetime(errors='coerce') of one cell
ToDatetime(c) == IF c.k = "iso" THEN Stamp(c.n) ELSE Stamp(NaT)

\* pd.to_numeric(errors='coerce') of one cell
ToNumeric(c) == IF c.k = "num" THEN c ELSE NaN

\* df['crash_date'] = pd.to_datetime(df['crash_date'], errors='coerce')
CoerceDates(frame) ==
    [frame EXCEPT !.rows =
        [i \in DOMAIN frame.rows |->
            [frame.rows[i] EXCEPT !.crash_date = ToDatetime(@)]]]

\* df[col] = pd.to_numeric(df[col], errors='coerce')
CoerceNumeric(frame, col) ==
    [frame EXCEPT !.rows =
        [i \in DOMAIN frame.rows |-> [frame.rows[i] EXCEPT ![col] = ToNumeric(@)]]]

\* df.dropna(subset=...)
DropNa(frame, subset) ==
    [frame EXCEPT !.rows =
        SelectSeq(frame.rows, LAMBDA r : \A col \in subset : ~IsNa(r[col]))]

\* lines 49-56, in the order of the script
Normalized(frame) ==
    LET dated == CoerceDates(frame)
        kept == DropNa(dated, {"latitude", "longitude", "borough"})
    IN  CoerceNumeric(CoerceNumeric(kept, "latitude"), "longitude")

\* faulty variant: the guard of line 37 never holds
Falsy_never(list) == FALSE

\* "not accidents": the truth value of a list is whether it has an element
Falsy(list) == Len(list) = 0

\* line 37: nothing was fetched
NoData ==
    /\ pc = "guard"
    /\ Falsy(accidents)
    /\ out' = Append(out, NoDataError)
    /\ pc' = "done"
    /\ UNCHANGED << process, session, failed_at, response, accidents, df, start_date,
                    end_date, filtered_df, stats, deck >>

\* lines 41-46: a required column is missing
MissingColumns ==
    /\ pc = "guard"
    /\ ~Falsy(accidents)
    /\ ~HasRequiredColumns(DataFrame(accidents))
    /\ df' = DataFrame(accidents)
    /\ out' = Append(out, ColumnsError)
    /\ pc' = "done"
    /\ UNCHANGED << process, session, failed_at, response, accidents, start_date,
                    end_date, filtered_df, stats, deck >>

\* lines 41-56
Normalize ==
    /\ pc = "guard"
    /\ ~Falsy(accidents)
    /\ HasRequiredColumns(DataFrame(accidents))
    /\ df' = Normalized(DataFrame(accidents))
    /\ pc' = "dates"
    /\ UNCHANGED << process, session, failed_at, response, accidents, start_date,
                    end_date, filtered_df, stats, deck, out >>

\* ------------------------------------------------------ dates and filter
\* Timestamp.date() and Series.dt.date: the calendar day of a date-time
DateOf(t) == t \div TicksPerDay

\* pd.to_datetime(date): 00:00 of that day
Midnight(d) == d * TicksPerDay

\* comparisons of date-times: any comparison with NaT is False
Ge(a, b) == a # NaT /\ b # NaT /\ a >= b
Le(a, b) == a # NaT /\ b # NaT /\ a <= b

\* valid date-times of the crash_date column (min() and max() skip NaT)
ValidStamps(frame) ==
    {frame.rows[i].crash_date.n : i \in DOMAIN frame.rows} \ {NaT}

MinOf(S) == CHOOSE x \in S : \A y \in S : x <= y
MaxOf(S) == CHOOSE x \in S : \A y \in S : x >= y

\* st.date_input(label, default): the default on first display, the
\* widget's state afterwards
DateInput(widget, default) == IF widget = 0 THEN default ELSE widget

\* lines 59-60.  With no valid crash date in the frame, min() is NaT and the
\* date picker cannot be built from it: the run ends there.
DateInputs ==
    /\ pc = "dates"
    /\ IF ValidStamps(df) = {}
       THEN /\ Raise(59)
            /\ UNCHANGED << session, start_date, end_date >>
       ELSE /\ start_date' = DateInput(wd_start, DateOf(MinOf(ValidStamps(df))))
            /\ end_date' = DateInput(wd_end, DateOf(MaxOf(ValidStamps(df))))
            /\ wd_start' = start_date'
            /\ wd_end' = end_date'
            /\ pc' = "filter"
            /\ UNCHANGED failed_at
    /\ UNCHANGED << process, response, accidents, df, filtered_df, stats, deck, out >>

\* the row mask of line 63
\* faulty variant: the upper bound of the mask is left out
InRange_noEnd(r, start, end) == Ge(r.crash_date.n, Midnight(start))

InRange(r, start, end) ==
    /\ Ge(r.crash_date.n, Midnight(start))
    /\ Le(r.crash_date.n, Midnight(end))

Between(start, end) ==
    [kind |-> "subheader", text |-> "Accidents between", num |-> start,
     str |-> "", aux |-> end]

head(rows) == SubSeq(rows, 1, IF Len(rows) < 5 THEN Len(rows) ELSE 5)

\* lines 63-67
Filter ==
    /\ pc = "filter"
    /\ filtered_df' = SelectSeq(df.rows, LAMBDA r : InRange(r, start_date, end_date))
    /\ out' = out \o << Between(start_date, end_date),
                        Elem("dataframe", "crash_date, latitude, longitude",
                             Len(head(filtered_df')), "") >>
    /\ pc' = "stats"
    /\ UNCHANGED << process, session, failed_at, response, accidents, df, start_date,
                    end_date, stats, deck >>

\* ------------------------------------------------------------ statistics
RECURSIVE SumOver(_, _)
SumOver(f, S) ==
    IF S = {} THEN 0
    ELSE LET x == CHOOSE y \in S : TRUE IN f[x] + SumOver(f, S \ {x})

\* faulty variant: grouped by the date-time, without .dt.date
GroupSizes_byStamp(rows) ==
    LET valid == {i \in DOMAIN rows : rows[i].crash_date.n # NaT}
        stamps == {rows[i].crash_date.n : i \in valid}
    IN  [t \in stamps |-> Cardinality({i \in valid : rows[i].crash_date.n = t})]

\* rows.groupby(rows['crash_date'].dt.date).size(): rows per calendar day
\* (groupby leaves out rows whose key is missing)
GroupSizes(rows) ==
    LET valid == {i \in DOMAIN rows : rows[i].crash_date.n # NaT}
        days == {DateOf(rows[i].crash_date.n) : i \in valid}
    IN  [d \in days |->
           Cardinality({i \in valid : DateOf(rows[i].crash_date.n) = d})]

\* Series.mean() as the fraction num / den; den = 0 stands for NaN
Mean(f) == [num |-> SumOver(f, DOMAIN f), den |-> Cardinality(DOMAIN f)]

\* f"{x:.2f}": x in hundredths, rounded half to even; NaN prints as nan
Format2f(x) ==
    IF x.den = 0 THEN Elem("number", "", 0, "nan")
    ELSE LET q == (100 * x.num) \div x.den
             r == (100 * x.num) % x.den
             h == IF 2 * r > x.den \/ (2 * r = x.den /\ q % 2 = 1) THEN q + 1 ELSE q
         IN  Elem("number", "", h, "")

\* the values Series.mode() counts: missing values are left out
Counted(col) == {col[i].s : i \in {j \in DOMAIN col : ~IsNa(col[j])}}

Occurrences(col, v) ==
    Cardinality({i \in DOMAIN col : ~IsNa(col[i]) /\ col[i].s = v})

\* Series.mode(): the most frequent values
Modes(col) ==
    {v \in Counted(col) : \A w \in Counted(col) : Occurrences(col, v) >= Occurrences(col, w)}

\* faulty variant: the modes sorted in descending order
ModeFirst_greatest(col) ==
    CHOOSE v \in Modes(col) : \A w \in Modes(col) : Rank(v) >= Rank(w)

\* Series.mode()[0]: mode() returns the modes sorted, [0] is the least
ModeFirst(col) == CHOOSE v \in Modes(col) : \A w \in Modes(col) : Rank(v) <= Rank(w)

Column(rows, col) == [i \in DOMAIN rows |-> rows[i][col]]

Write(text, num, str) == Elem("write", text, num, str)

\* lines 70-87.  mode() of a column without a counted value is empty and
\* [0] raises on it.
Statistics ==
    /\ pc = "stats"
    /\ LET total_accidents == Len(filtered_df)
           avg_accidents_per_day == Mean(GroupSizes(filtered_df))
           shown == Format2f(avg_accidents_per_day)
           streets == Column(filtered_df, "on_street_name")
           boroughs == Column(filtered_df, "borough")
           upto79 == out \o
               << Elem("subheader", "Statistical Overview", 0, ""),
                  Write("**Total number of accidents:**", total_accidents, ""),
                  Write("**Average number of accidents per day:**", shown.num, shown.str) >>
           upto83 == Append(upto79,
                  Write("**Most common street for accidents:**", 0, ModeFirst(streets)))
           s79 == [NoStats EXCEPT !.done = {"total", "avg"},
                                  !.total = total_accidents,
                                  !.avg = avg_accidents_per_day]
           s83 == [s79 EXCEPT !.done = @ \cup {"street"}, !.street = ModeFirst(streets)]
       IN  IF Modes(streets) = {}
           THEN /\ out' = upto79
                /\ stats' = s79
                /\ Raise(82)
           ELSE IF Modes(boroughs) = {}
           THEN /\ out' = upto83
                /\ stats' = s83
                /\ Raise(86)
           ELSE /\ out' = Append(upto83,
                       Write("**Borough with most accidents:**", 0, ModeFirst(boroughs)))
                /\ stats' = [s83 EXCEPT !.done = @ \cup {"borough"},
                                        !.borough = ModeFirst(boroughs)]
                /\ pc' = "map"
                /\ UNCHANGED failed_at
    /\ UNCHANGED << process, session, response, accidents, df, start_date, end_date,
                    filtered_df, deck >>

\* ------------------------------------------------------------------ map
\* lines 109-124, coordinates in units of 0.0001 degree, [longitude, latitude]
borough_boundaries ==
    [manhattan |-> << << -740201, 407003 >>, << -739306, 407003 >>,
                      << -739306, 408003 >>, << -740201, 408003 >>,
                      << -740201, 407003 >> >>,
     brooklyn |-> << << -739794, 405730 >>, << -738994, 405730 >>,
                     << -738994, 406930 >>, << -739794, 406930 >>,
                     << -739794, 405730 >> >>]

Layer(type, data, polygon) == [type |-> type, data |-> data, polygon |-> polygon]

\* lines 94-102
accident_layer(rows) ==
    Layer("ScatterplotLayer",
          [i \in DOMAIN rows |->
             [latitude |-> rows[i].latitude, longitude |-> rows[i].longitude]],
          << >>)

\* lines 127-137: the layers the highlight contributes to the deck
borough_highlight_layer(name) ==
    IF name \in DOMAIN borough_boundaries
    THEN << Layer("PolygonLayer", << >>, borough_boundaries[name]) >>
    ELSE << >>

\* Series.mean() of a numeric column: NaN cells are skipped
NumericMean(col) ==
    LET nums == {i \in DOMAIN col : col[i].k = "num"}
    IN  Mean([i \in nums |-> col[i].n])

\* lines 90-153
MapComposition ==
    /\ pc = "map"
    /\ IF Len(filtered_df) > 0
       THEN /\ deck' =
                 [built |-> TRUE,
                  layers |-> << accident_layer(filtered_df) >>
                             \o borough_highlight_layer(Lower(stats.borough)),
                  view |-> [latitude |-> NumericMean(Column(filtered_df, "latitude")),
                            longitude |-> NumericMean(Column(filtered_df, "longitude")),
                            zoom |-> 12, pitch |-> 0]]
            /\ out' = out \o << Elem("subheader", "Accidents on the Map", 0, ""),
                                Elem("pydeck_chart", "", 0, "") >>
       ELSE /\ deck' = deck
            /\ out' = out \o << Elem("subheader", "Accidents on the Map", 0, ""),
                                RangeWarning >>
    /\ pc' = "done"
    /\ UNCHANGED << process, session, failed_at, response, accidents, df, start_date,
                    end_date, filtered_df, stats >>

\* ------------------------------------------------------- specification
Next ==
    \/ Open
    \/ Rerun
    \/ ChangeDate
    \/ FetchCached
    \/ FetchOk
    \/ FetchBadStatus
    \/ FetchRaise
    \/ NoData
    \/ MissingColumns
    \/ Normalize
    \/ DateInputs
    \/ Filter
    \/ Statistics
    \/ MapComposition

Spec == Init /\ [][Next]_vars

\* =============================================================== claims
Shown(e) == \E i \in DOMAIN out : out[i] = e

\* the run has executed the filter of line 63
FilterRan ==
    \E i \in DOMAIN out : out[i].kind = "subheader" /\ out[i].text = "Accidents between"

\* the row's crash date is valid and its calendar day lies in [start, end]
DayInRange(r, start, end) ==
    /\ r.crash_date.n # NaT
    /\ start <= DateOf(r.crash_date.n)
    /\ DateOf(r.crash_date.n) <= end

\* sub is a subsequence of seq: its elements, in the same relative order
IsSubsequence(sub, seq) ==
    \E f \in [DOMAIN sub -> DOMAIN seq] :
        /\ \A i, j \in DOMAIN sub : i < j => f[i] < f[j]
        /\ \A i \in DOMAIN sub : sub[i] = seq[f[i]]

\* C1: a finished run whose filter matched no record has computed no
\* statistic but the count, has built no map, has not failed, and ends with
\* the "No accidents found for the selected date range." warning.
C1_EmptyRangeWarns ==
    (Finished /\ FilterRan /\ filtered_df = << >>) =>
        /\ pc = "done"
        /\ failed_at = 0
        /\ stats.done \subseteq {"total"}
        /\ ~deck.built
        /\ Shown(RangeWarning)
        /\ out[Len(out)] = RangeWarning

\* C2: with start <= end, the filtered rows are a subsequence of the
\* normalized rows, each with a valid crash date whose day d satisfies
\* start <= d <= end.
C2_FilteredSubset ==
    (FilterRan /\ start_date <= end_date) =>
        /\ IsSubsequence(filtered_df, df.rows)
        /\ \A i \in DOMAIN filtered_df :
              DayInRange(filtered_df[i], start_date, end_date)

\* C2 witness: the filter kept some rows and dropped others, among them a
\* row with an invalid crash date.
C2_Witness ==
    /\ FilterRan
    /\ start_date <= end_date
    /\ filtered_df # << >>
    /\ Len(filtered_df) < Len(df.rows)
    /\ \E i \in DOMAIN df.rows : df.rows[i].crash_date.n = NaT

\* C3: every normalized row whose crash day d satisfies start <= d <= end is
\* in the filtered output, whatever its time of day.
C3_DayGranularity ==
    FilterRan =>
        \A i \in DOMAIN df.rows :
            DayInRange(df.rows[i], start_date, end_date) =>
                \E j \in DOMAIN filtered_df : filtered_df[j] = df.rows[i]

\* C4: a response with a non-success status makes fetch_accident_data show
\* the fetch error with the status code and return []; the run shows "No
\* accident data found." and does nothing else: no frame, no filter, no
\* statistics, no map, no failure.
C4_FailedFetch ==
    (response \notin {0, 200}) =>
        /\ accidents = << >>
        /\ Shown(FetchError(response))
        /\ pc \in {"guard", "done"}
        /\ failed_at = 0
        /\ df = NoFrame
        /\ start_date = 0 /\ end_date = 0
        /\ filtered_df = << >>
        /\ stats = NoStats
        /\ ~deck.built
        /\ pc = "done" => out = << Title, Intro, FetchError(response), NoDataError >>

\* C4 witness: a run whose request was answered 500 has ended.
C4_Witness == response = 500 /\ pc = "done" /\ Shown(NoDataError)

\* C5: after normalization no row has a missing latitude, longitude or
\* borough.
C5_NoMissingAfterNormalize ==
    (pc \in {"dates", "filter", "stats", "map"}) =>
        \A i \in DOMAIN df.rows :
            /\ ~IsNa(df.rows[i].latitude)
            /\ ~IsNa(df.rows[i].longitude)
            /\ ~IsNa(df.rows[i].borough)

ValuesOf(col) == {col[i].s : i \in {j \in DOMAIN col : ~IsNa(col[j])}}
TimesIn(col, v) == Cardinality({i \in DOMAIN col : ~IsNa(col[i]) /\ col[i].s = v})
FirstIndex(col, v) ==
    CHOOSE i \in DOMAIN col :
        /\ ~IsNa(col[i]) /\ col[i].s = v
        /\ \A j \in 1 .. (i - 1) : IsNa(col[j]) \/ col[j].s # v
IsModal(col, v) ==
    /\ v \in ValuesOf(col)
    /\ \A w \in ValuesOf(col) : TimesIn(col, v) >= TimesIn(col, w)
TiedWith(col, v) == {w \in ValuesOf(col) : TimesIn(col, w) = TimesIn(col, v)}

streets_of_filtered == Column(filtered_df, "on_street_name")
boroughs_of_filtered == Column(filtered_df, "borough")

\* C7: the reported street and borough have maximal frequency, and among
\* the values tied for it the reported one occurs first in record order.
C7_FirstOccurrence ==
    /\ "street" \in stats.done =>
          /\ IsModal(streets_of_filtered, stats.street)
          /\ \A w \in TiedWith(streets_of_filtered, stats.street) :
                FirstIndex(streets_of_filtered, stats.street)
                    <= FirstIndex(streets_of_filtered, w)
    /\ "borough" \in stats.done =>
          /\ IsModal(boroughs_of_filtered, stats.borough)
          /\ \A w \in TiedWith(boroughs_of_filtered, stats.borough) :
                FirstIndex(boroughs_of_filtered, stats.borough)
                    <= FirstIndex(boroughs_of_filtered, w)

\* C7, amended: a reported street or borough is a non-missing value of
\* maximal frequency among the non-missing values of its column, and among
\* the values tied for it the reported one is the least in string order; a
\* street is reported exactly when the column has a non-missing value, and
\* otherwise the run has failed at line 82.
C7_LeastOfTied ==
    /\ "street" \in stats.done =>
          /\ IsModal(streets_of_filtered, stats.street)
          /\ \A w \in TiedWith(streets_of_filtered, stats.street) :
                Rank(stats.street) <= Rank(w)
    /\ "borough" \in stats.done =>
          /\ IsModal(boroughs_of_filtered, stats.borough)
          /\ \A w \in TiedWith(boroughs_of_filtered, stats.borough) :
                Rank(stats.borough) <= Rank(w)
    /\ "avg" \in stats.done =>
          /\ "street" \in stats.done <=> ValuesOf(streets_of_filtered) # {}
          /\ "street" \notin stats.done => (pc = "failed" /\ failed_at = 82)

\* C7 witness: both modes are reported and a street tied with the reported
\* one occurs before it.
C7_Witness ==
    /\ "borough" \in stats.done
    /\ \E w \in TiedWith(streets_of_filtered, stats.street) :
          FirstIndex(streets_of_filtered, w)
              < FirstIndex(streets_of_filtered, stats.street)

\* the calendar days that have a filtered row
DaysWithRows ==
    {DateOf(filtered_df[i].crash_date.n) :
        i \in {j \in DOMAIN filtered_df : filtered_df[j].crash_date.n # NaT}}
ValidRows == {i \in DOMAIN filtered_df : filtered_df[i].crash_date.n # NaT}

\* C8: for a non-empty filtered dataset the average per day is the number
\* of rows with a valid crash date divided by the number of distinct days
\* that have a row, and the line displayed is that quotient to two decimals.
C8_AveragePerDay ==
    ("avg" \in stats.done /\ filtered_df # << >>) =>
        /\ stats.avg.den > 0
        /\ stats.avg.num * Cardinality(DaysWithRows)
              = Cardinality(ValidRows) * stats.avg.den
        /\ \E i \in DOMAIN out :
              /\ out[i].kind = "write"
              /\ out[i].text = "**Average number of accidents per day:**"
              /\ out[i].str = ""
              /\ 2 * (out[i].num * Cardinality(DaysWithRows) - 100 * Cardinality(ValidRows))
                    <= Cardinality(DaysWithRows)
              /\ 2 * (100 * Cardinality(ValidRows) - out[i].num * Cardinality(DaysWithRows))
                    <= Cardinality(DaysWithRows)

\* C8 witness: three rows on two days, two of them on the same day at
\* different times, give 3/2, displayed as 1.50.
C8_Witness ==
    /\ "avg" \in stats.done
    /\ Len(filtered_df) = 3
    /\ Cardinality(DaysWithRows) = 2
    /\ Cardinality({filtered_df[i].crash_date.n : i \in DOMAIN filtered_df}) = 3
    /\ stats.avg = [num |-> 3, den |-> 2]
    /\ Shown(Write("**Average number of accidents per day:**", 150, ""))

ManhattanRing ==
    << << -740201, 407003 >>, << -739306, 407003 >>, << -739306, 408003 >>,
       << -740201, 408003 >>, << -740201, 407003 >> >>
BrooklynRing ==
    << << -739794, 405730 >>, << -738994, 405730 >>, << -738994, 406930 >>,
       << -739794, 406930 >>, << -739794, 405730 >> >>
PolygonLayers == {i \in DOMAIN deck.layers : deck.layers[i].type = "PolygonLayer"}
PointLayers == {i \in DOMAIN deck.layers : deck.layers[i].type = "ScatterplotLayer"}

AbsentFromAll(f) == \A i \in DOMAIN accidents : accidents[i][f].k = "absent"

\* C10: when the fetched data is non-empty and lacks a required field in
\* every record, the run shows the missing-columns error and stops: no row
\* is normalized, no date picker is shown, no statistics and no map follow.
C10_MissingColumns ==
    (pc \notin {"idle", "fetch", "guard"} /\ accidents # << >>
        /\ \E f \in Fields : AbsentFromAll(f)) =>
        /\ pc = "done"
        /\ failed_at = 0
        /\ out = << Title, Intro, ColumnsError >>
        /\ \A i \in DOMAIN df.rows : df.rows[i].crash_date.k # "time"
        /\ Len(df.rows) = Len(accidents)
        /\ wd_start = 0 /\ wd_end = 0
        /\ start_date = 0 /\ end_date = 0
        /\ filtered_df = << >>
        /\ stats = NoStats
        /\ ~deck.built

\* C10 witness: a run over records that all lack on_street_name has ended
\* with the missing-columns error.
C10_Witness ==
    /\ pc = "done"
    /\ accidents # << >>
    /\ AbsentFromAll("on_street_name")
    /\ Shown(ColumnsError)

=============================================================================
